---- MODULE Spec2Model ----
(***************************************************************************)
(* Model of the Windows Event Log input (WinEventLog), of the Windows      *)
(* services input (WinServices) and of the Windows service program.        *)
(*                                                                         *)
(* Spec        one WinEventLog instance driven by non-overlapping Gather   *)
(*             calls; every native call (_EvtSubscribe, _EvtNext,          *)
(*             _EvtRender, _EvtClose, ...) answers nondeterministically.   *)
(* SpecBuf     formatEventString and DisplayNameStartType, one native call *)
(*             per step.                                                   *)
(* SpecFilter  shouldProcessField over bounded glob pattern lists.         *)
(* SpecEmpty   shouldExcludeEmptyField over bounded exclude-empty lists.   *)
(* SpecText    one formatting request over every text up to MaxTextLen.    *)
(* SpecEvent   one event from renderEvent to the record Gather emits.      *)
(* SpecLive    Spec with the fairness of a running Gather call.            *)
(* SpecSvc     one Gather call of WinServices.                             *)
(* SpecPrg     Start, run and Stop of the service program, interleaved.    *)
(***************************************************************************)
EXTENDS Integers, Sequences, FiniteSets, TLC

VARIABLES
    subscription,   \* w.subscription (EvtHandle, 0 = unset)
    bufLen,         \* len(w.buf)
    pc,             \* position of the Gather call: idle, fetch, render, close, emit
    eventHandles,   \* fetchEvents: the batch returned by fetchEventHandles
    idx,            \* fetchEvents: index of the render loop / of the close loop
    events,         \* fetchEvents: the events rendered so far
    fetchRet,       \* what the last fetchEvents returned: [src, err]
    emitted,        \* records handed to acc.AddFields by the current Gather call
    ret,            \* value returned by the last Gather call ("running" meanwhile)
    subAnswer,      \* how evtSubscribe ended in the current Gather call ("none": not called)
    subscribeOks,   \* number of successful evtSubscribe calls of the instance
    lastPull,       \* what _EvtNext answered to the last pull of the cycle
    pulls,          \* pulls issued by the current Gather call
    renderLog,      \* per rendered handle of the batch: the native answer and the result
    closeCalls,     \* per handle of the batch: number of _EvtClose calls on it
    nextSlot,       \* next event of the channel not yet handed out by _EvtNext
    bc,             \* the buffered native call in progress (SpecBuf)
    EventTags,      \* w.EventTags
    EventFields,    \* w.EventFields
    ExcludeFields,  \* w.ExcludeFields
    classified,     \* last result of shouldProcessField (SpecFilter)
    ExcludeEmpty,   \* w.ExcludeEmpty
    TimeStampFromEvent, \* w.TimeStampFromEvent
    ev,             \* one event on its way through renderEvent and Gather (SpecEvent)
    emptyChecked,   \* last result of shouldExcludeEmptyField (SpecEmpty)
    text,           \* last text value produced by a formatting request (SpecText)
    svc,            \* one Gather call of WinServices (SpecSvc)
    prg             \* the service program: Start, run and Stop (SpecPrg)

gatherVars == <<subscription, bufLen, pc, eventHandles, idx, events, fetchRet,
                emitted, ret, subAnswer, subscribeOks, lastPull, pulls,
                renderLog, closeCalls, nextSlot>>
filterVars == <<EventTags, EventFields, ExcludeFields, classified>>
eventVars == <<ExcludeEmpty, TimeStampFromEvent, ev, emptyChecked, text>>
otherVars == <<svc, prg>>
vars == <<gatherVars, bc, filterVars, eventVars, otherVars>>

(***************************************************************************)
(* Bounds of the model.                                                    *)
(***************************************************************************)
MaxEvents == 3      \* events the channel delivers over the whole run
MaxPulls == 3       \* pulls per Gather call; the last one reports an error
MaxSizeFactor == 5  \* QueryServiceConfig reports sizes up to MaxSizeFactor * 512
MaxFormatSize == 2  \* _EvtFormatMessage reports sizes up to MaxFormatSize characters
MaxListLen == 1     \* patterns per configured list
MaxNameLen == 2     \* characters per field name

(***************************************************************************)
(* Program constants.                                                      *)
(***************************************************************************)
bufferSize == 16384
eventsNumber == 5
InitialConfigSize == 1024

NativeErrors == {"ERROR_INVALID_OPERATION", "ERROR_NO_MORE_ITEMS",
                 "ERROR_INSUFFICIENT_BUFFER", "ERROR_INVALID_HANDLE"}
SubHandles == {1, 2}

Min(a, b) == IF a < b THEN a ELSE b

(***************************************************************************)
(* WinEventLog: subscription.                                              *)
(***************************************************************************)
NoPull == [err |-> "none", returned |-> 0, sub |-> 0]
NoFetch == [src |-> "none", err |-> "nil"]

\* The ways evtSubscribe can end: CreateEvent fails, a name holds a NUL
\* (UTF16PtrFromString fails), _EvtSubscribe fails, or all succeed.
SubscribeOutcomes == {"createEventErr", "logNameErr", "xqueryErr", "subscribeErr", "ok"}

\* evtSubscribe returning the handle it was given together with the error.
evtSubscribeKeepsHandle(outcome, h) ==
    [handle |-> h, err |-> IF outcome = "ok" THEN "nil" ELSE outcome]

\* evtSubscribe: every failure returns the zero handle with the error.
evtSubscribe(outcome, h) ==
    IF outcome = "ok"
    THEN [handle |-> h, err |-> "nil"]
    ELSE [handle |-> 0, err |-> outcome]

\* Gather subscribing on every call.
NeedsSubscribeAlways(sub) == TRUE

\* Gather: `if w.subscription == 0`.
NeedsSubscribe(sub) == sub = 0

\* Gather, from its entry to the first pull: subscribe when no handle is
\* stored; a subscription error ends the call.
GatherEnter ==
    /\ pc = "idle"
    /\ \E o \in SubscribeOutcomes, h \in SubHandles :
         LET call == NeedsSubscribe(subscription)
             r == IF call THEN evtSubscribe(o, h)
                          ELSE [handle |-> subscription, err |-> "nil"]
         IN /\ subscription' = r.handle
            /\ subAnswer' = IF call THEN o ELSE "none"
            /\ subscribeOks' = IF call /\ r.err = "nil"
                               THEN subscribeOks + 1 ELSE subscribeOks
            /\ IF r.err # "nil"
               THEN pc' = "idle" /\ ret' = "SubscriptionError"
               ELSE pc' = "fetch" /\ ret' = "running"
    /\ emitted' = <<>>
    /\ pulls' = 0
    /\ lastPull' = NoPull
    /\ eventHandles' = <<>>
    /\ idx' = 0
    /\ events' = <<>>
    /\ fetchRet' = NoFetch
    /\ renderLog' = <<>>
    /\ closeCalls' = <<>>
    /\ UNCHANGED <<bufLen, nextSlot, bc,
                   filterVars, eventVars, otherVars>>

(***************************************************************************)
(* WinEventLog: pulling a batch.                                           *)
(***************************************************************************)
\* fetchEventHandles passing every native error on as it is.
fetchEventHandlesNoTranslation(natErr, evtReturned, handles) ==
    IF natErr # "nil"
    THEN [handles |-> <<>>, err |-> natErr]
    ELSE [handles |-> SubSeq(handles, 1, evtReturned), err |-> "nil"]

\* fetchEventHandles reporting the end of the backlog for a pull that
\* succeeded with no handle.
fetchEventHandlesEmptyEnds(natErr, evtReturned, handles) ==
    IF natErr # "nil"
    THEN IF natErr = "ERROR_INVALID_OPERATION" /\ evtReturned = 0
         THEN [handles |-> <<>>, err |-> "ERROR_NO_MORE_ITEMS"]
         ELSE [handles |-> <<>>, err |-> natErr]
    ELSE IF evtReturned = 0
    THEN [handles |-> <<>>, err |-> "ERROR_NO_MORE_ITEMS"]
    ELSE [handles |-> SubSeq(handles, 1, evtReturned), err |-> "nil"]

\* fetchEventHandles: ERROR_INVALID_OPERATION with nothing returned becomes
\* ERROR_NO_MORE_ITEMS, any other error is passed on, success yields
\* eventHandles[:evtReturned].
fetchEventHandles(natErr, evtReturned, handles) ==
    IF natErr # "nil"
    THEN IF natErr = "ERROR_INVALID_OPERATION" /\ evtReturned = 0
         THEN [handles |-> <<>>, err |-> "ERROR_NO_MORE_ITEMS"]
         ELSE [handles |-> <<>>, err |-> natErr]
    ELSE [handles |-> SubSeq(handles, 1, evtReturned), err |-> "nil"]

\* Gather breaking the loop on every error.
GatherOnErrorSwallow(err) == "nil"

\* Gather's switch on the error of fetchEvents: ERROR_NO_MORE_ITEMS breaks the
\* loop (return nil), any other error is returned.
GatherOnError(err) ==
    IF err = "ERROR_NO_MORE_ITEMS" THEN "nil" ELSE err

\* One pull: _EvtNext answers with an error or with up to eventsNumber handles,
\* some of which may be null.
Pull ==
    /\ pc = "fetch"
    /\ \E natErr \in {"nil"} \cup NativeErrors,
          n \in 0..Min(eventsNumber, MaxEvents + 1 - nextSlot) :
         \E nulls \in SUBSET (1..n) :
           /\ natErr = "nil" => pulls + 1 < MaxPulls
           /\ natErr # "nil" => n <= 1 /\ nulls = {}
           /\ LET handles == [i \in 1..eventsNumber |->
                                IF i > n \/ i \in nulls THEN 0 ELSE nextSlot + i - 1]
                  r == fetchEventHandles(natErr, n, handles)
              IN /\ lastPull' = [err |-> natErr, returned |-> n, sub |-> subscription]
                 /\ pulls' = pulls + 1
                 /\ eventHandles' = r.handles
                 /\ events' = <<>>
                 /\ renderLog' = <<>>
                 /\ closeCalls' = [i \in 1..Len(r.handles) |-> 0]
                 /\ IF r.err # "nil"
                    THEN /\ fetchRet' = [src |-> "pull", err |-> r.err]
                         /\ pc' = "idle"
                         /\ ret' = GatherOnError(r.err)
                         /\ idx' = 0
                         /\ nextSlot' = nextSlot
                    ELSE /\ fetchRet' = NoFetch
                         /\ pc' = IF Len(r.handles) = 0 THEN "emit" ELSE "render"
                         /\ ret' = ret
                         /\ idx' = 1
                         /\ nextSlot' = nextSlot + n
    /\ UNCHANGED <<subscription, bufLen, emitted, subAnswer, subscribeOks, bc,
                   filterVars, eventVars, otherVars>>

(***************************************************************************)
(* WinEventLog: the text values of an event. A string is a sequence of     *)
(* characters; "NUL" is \x00, "SP" a space, "CR" and "LF" the line breaks, *)
(* "x" any other character.                                                *)
(***************************************************************************)
MaxTextLen == 3

FormatFlags == {"EvtFormatMessageEvent", "EvtFormatMessageLevel", "EvtFormatMessageTask",
                "EvtFormatMessageOpcode", "EvtFormatMessageKeyword"}

Chars == {"x", "SP", "CR", "LF", "NUL"}
LineBreaks == {"CR", "LF"}
WhiteSpace == {"SP", "CR", "LF"}
Strings == UNION {[1..n -> Chars] : n \in 0..MaxTextLen}

RECURSIVE TrimLeft(_, _)
TrimLeft(s, cutset) ==
    IF s # <<>> /\ Head(s) \in cutset THEN TrimLeft(Tail(s), cutset) ELSE s

RECURSIVE TrimRight(_, _)
TrimRight(s, cutset) ==
    IF s # <<>> /\ s[Len(s)] \in cutset
    THEN TrimRight(SubSeq(s, 1, Len(s) - 1), cutset)
    ELSE s

\* bytes.Trim(result, "\x00")
TrimNul(s) == TrimRight(TrimLeft(s, {"NUL"}), {"NUL"})

\* strings.TrimSpace(message)
TrimSpace(s) == TrimRight(TrimLeft(s, WhiteSpace), WhiteSpace)

\* crlfRe.ReplaceAllString(message, "|") with crlfRe = [\r\n]+
RECURSIVE crlfReReplaceAll(_)
crlfReReplaceAll(s) ==
    IF s = <<>> THEN <<>>
    ELSE IF Head(s) \in LineBreaks
    THEN <<"|">> \o crlfReReplaceAll(TrimLeft(Tail(s), LineBreaks))
    ELSE <<Head(s)>> \o crlfReReplaceAll(Tail(s))

\* Length of the longest prefix of s without a NUL.
RECURSIVE FieldLen(_)
FieldLen(s) ==
    IF s = <<>> \/ Head(s) = "NUL" THEN 0 ELSE 1 + FieldLen(Tail(s))

\* strings.FieldsFunc(result, splitZero): the maximal NUL-free pieces of s.
RECURSIVE FieldsFunc(_)
FieldsFunc(s) ==
    LET t == TrimLeft(s, {"NUL"}) IN
      IF t = <<>> THEN <<>>
      ELSE <<SubSeq(t, 1, FieldLen(t))>> \o FieldsFunc(SubSeq(t, FieldLen(t) + 1, Len(t)))

\* strings.Join(elems, sep)
RECURSIVE Join(_, _)
Join(fields, sep) ==
    IF fields = <<>> THEN <<>>
    ELSE IF Len(fields) = 1 THEN fields[1]
    ELSE fields[1] \o <<sep>> \o Join(Tail(fields), sep)

\* formatEventString giving every flag the treatment of the keywords.
formatEventStringOutJoinAll(messageFlag, result) == Join(FieldsFunc(result), ",")

\* formatEventString, from the decoded result to the returned string.
formatEventStringOut(messageFlag, result) ==
    IF messageFlag = "EvtFormatMessageKeyword"
    THEN Join(FieldsFunc(result), ",")
    ELSE TrimNul(result)

\* renderEvent, what is stored in event.Message after a successful request.
messageText(message) == crlfReReplaceAll(TrimSpace(message))

(***************************************************************************)
(* WinEventLog: rendering one handle.                                      *)
(***************************************************************************)
\* What the native side answers during one renderEvent call: the result of
\* _EvtRender (error and size reported in bufferUsed) and, when it succeeds,
\* how far the rest goes: DecodeUTF16 fails, xml.Unmarshal fails,
\* openPublisherMetadata fails, or the text values are resolved.
RenderPaths == {"decodeErr", "xmlErr", "publisherErr", "resolved"}

\* What the XML of an event carries, as far as the record depends on it:
\* whether TimeCreated.SystemTime parses as RFC3339Nano, the Level, and the
\* values the text fields have after xml.Unmarshal.
XmlSamples ==
    [timeOk : BOOLEAN, Level : {0, 4},
     prior : [FormatFlags -> {<<>>, <<"x">>}]]

DefaultXml == [timeOk |-> TRUE, Level |-> 4, prior |-> [f \in FormatFlags |-> <<>>]]

\* What formatEventString gets for one request: an error of _EvtFormatMessage
\* or DecodeUTF16, or the decoded result.
FormatFailed == [err |-> "ERROR_EVT_MESSAGE_NOT_FOUND", result |-> <<>>]
FormatAnswers == {FormatFailed, [err |-> "nil", result |-> <<"SP", "x", "LF", "NUL">>]}
AllFormatted == [f \in FormatFlags |-> [err |-> "nil", result |-> <<"x", "NUL">>]]

RenderOutcomes(blen) ==
    {[renderErr |-> "ERROR_INSUFFICIENT_BUFFER", bufferUsed |-> sz, path |-> "resolved",
      xml |-> DefaultXml, fmt |-> AllFormatted] : sz \in {blen, 2 * blen}}
    \cup {[renderErr |-> "ERROR_INVALID_HANDLE", bufferUsed |-> 0, path |-> "resolved",
           xml |-> DefaultXml, fmt |-> AllFormatted]}
    \cup {[renderErr |-> "nil", bufferUsed |-> blen \div 2, path |-> p,
           xml |-> DefaultXml, fmt |-> AllFormatted] : p \in RenderPaths}

\* Event{}
NoEvent ==
    [handle |-> 0, System |-> "none", timeOk |-> FALSE, EventID |-> 0, Level |-> 0,
     Channel |-> <<>>, Source |-> <<>>, EventData |-> <<>>,
     Keywords |-> <<>>, Message |-> <<>>, LevelText |-> <<>>, TaskText |-> <<>>,
     OpcodeText |-> <<>>]

\* The event after xml.Unmarshal; handle stands for its EventRecordID.
Unmarshal(h, xml, system) ==
    [handle |-> h, System |-> system, timeOk |-> xml.timeOk, EventID |-> 7,
     Level |-> xml.Level, Channel |-> <<"x">>, Source |-> <<"x">>,
     EventData |-> << <<"x", "LF", "x">> >>,
     Keywords |-> xml.prior["EvtFormatMessageKeyword"],
     Message |-> xml.prior["EvtFormatMessageEvent"],
     LevelText |-> xml.prior["EvtFormatMessageLevel"],
     TaskText |-> xml.prior["EvtFormatMessageTask"],
     OpcodeText |-> xml.prior["EvtFormatMessageOpcode"]]

\* formatEventString once the native answer is known.
formatEventString(messageFlag, answer) ==
    IF answer.err # "nil"
    THEN [out |-> <<>>, err |-> answer.err]
    ELSE [out |-> formatEventStringOut(messageFlag, answer.result), err |-> "nil"]

\* The event field a formatting request fills.
FieldOf(messageFlag) ==
    CASE messageFlag = "EvtFormatMessageKeyword" -> "Keywords"
      [] messageFlag = "EvtFormatMessageEvent" -> "Message"
      [] messageFlag = "EvtFormatMessageLevel" -> "LevelText"
      [] messageFlag = "EvtFormatMessageTask" -> "TaskText"
      [] messageFlag = "EvtFormatMessageOpcode" -> "OpcodeText"

\* The order in which renderEvent issues the formatting requests.
FormatOrder ==
    <<"EvtFormatMessageKeyword", "EvtFormatMessageEvent", "EvtFormatMessageLevel",
      "EvtFormatMessageTask", "EvtFormatMessageOpcode">>

\* renderEvent storing the returned value whether the request failed or not.
populateAlways(event, messageFlag, r) ==
    [event EXCEPT ![FieldOf(messageFlag)] =
        IF messageFlag = "EvtFormatMessageEvent" THEN messageText(r.out) ELSE r.out]

\* renderEvent, `if err == nil { event.X = x }` after one formatting request.
populate(event, messageFlag, r) ==
    IF r.err # "nil" THEN event
    ELSE [event EXCEPT ![FieldOf(messageFlag)] =
            IF messageFlag = "EvtFormatMessageEvent" THEN messageText(r.out) ELSE r.out]

\* renderEvent, the formatting requests from position i of FormatOrder on.
RECURSIVE populateFrom(_, _, _, _)
populateFrom(event, calls, fmt, i) ==
    IF i > Len(FormatOrder) THEN [event |-> event, calls |-> calls]
    ELSE LET flag == FormatOrder[i]
             r == formatEventString(flag, fmt[flag])
         IN populateFrom(populate(event, flag, r), Append(calls, flag), fmt, i + 1)

\* renderEvent replacing w.buf by a buffer of the size the render used.
bufAfterRenderShrinks(blen, nat) ==
    IF nat.renderErr = "nil" THEN nat.bufferUsed ELSE blen

\* len(w.buf) after renderEvent: w.buf is handed to _EvtRender and sliced,
\* never assigned.
bufAfterRender(blen, nat) == blen

\* renderEvent: a failed _EvtRender or DecodeUTF16 fails the event; a failed
\* xml.Unmarshal or openPublisherMetadata returns the event without error and
\* without any formatting request. w.buf is passed to _EvtRender as it is and
\* is never reallocated. calls are the formatting requests issued.
renderEvent(h, blen, nat) ==
    LET buf == bufAfterRender(blen, nat) IN
    IF nat.renderErr # "nil"
    THEN [event |-> NoEvent, err |-> nat.renderErr, bufLen |-> buf, calls |-> <<>>]
    ELSE IF nat.path = "decodeErr"
    THEN [event |-> NoEvent, err |-> "DecodeError", bufLen |-> buf, calls |-> <<>>]
    ELSE IF nat.path = "xmlErr"
    THEN [event |-> Unmarshal(h, nat.xml, "partial"), err |-> "nil", bufLen |-> buf,
          calls |-> <<>>]
    ELSE IF nat.path = "publisherErr"
    THEN [event |-> Unmarshal(h, nat.xml, "full"), err |-> "nil", bufLen |-> buf,
          calls |-> <<>>]
    ELSE LET p == populateFrom(Unmarshal(h, nat.xml, "full"), <<>>, nat.fmt, 1)
         IN [event |-> p.event, err |-> "nil", bufLen |-> buf, calls |-> p.calls]

\* fetchEvents starting its result anew after a failed render.
AppendRenderedOrReset(evs, r) ==
    IF r.err = "nil" THEN Append(evs, r.event) ELSE <<>>

\* fetchEvents, body of the render loop: `if err == nil { events = append(...) }`.
AppendRendered(evs, r) ==
    IF r.err = "nil" THEN Append(evs, r.event) ELSE evs

\* fetchEvents going on to release the handles after the first one of the
\* batch has been looked at.
renderLoopNextReleaseEarly(i, n) == [pc |-> "close", idx |-> 1]

\* fetchEvents, where it goes after looking at handle i of n: to the next
\* handle, or after the last one to the loop that releases the handles.
renderLoopNext(i, n) ==
    IF i = n THEN [pc |-> "close", idx |-> 1] ELSE [pc |-> "render", idx |-> i + 1]

\* fetchEvents, one iteration of the render loop: a null handle is skipped.
Render ==
    /\ pc = "render"
    /\ LET h == eventHandles[idx] IN
         IF h = 0
         THEN UNCHANGED <<events, renderLog, bufLen, otherVars>>
         ELSE \E nat \in RenderOutcomes(bufLen) :
                LET r == renderEvent(h, bufLen, nat) IN
                  /\ events' = AppendRendered(events, r)
                  /\ bufLen' = r.bufLen
                  /\ renderLog' = Append(renderLog,
                        [handle |-> h, nativeErr |-> nat.renderErr,
                         required |-> nat.bufferUsed, bufBefore |-> bufLen,
                         path |-> nat.path, calls |-> r.calls,
                         bufAfter |-> r.bufLen, err |-> r.err])
    /\ pc' = renderLoopNext(idx, Len(eventHandles)).pc
    /\ idx' = renderLoopNext(idx, Len(eventHandles)).idx
    /\ UNCHANGED <<subscription, eventHandles, fetchRet, emitted, ret, subAnswer,
                   subscribeOks, lastPull, pulls, closeCalls, nextSlot, bc,
                   filterVars, eventVars, otherVars>>

(***************************************************************************)
(* WinEventLog: releasing the batch, emitting the records.                 *)
(***************************************************************************)
\* fetchEvents, the close loop: whether the loop goes on after _EvtClose
\* answered err for one handle (`if err != nil { return events, err }`).
CloseLoopContinues(err) == err = "nil"

\* fetchEvents, one iteration of the close loop.
Close ==
    /\ pc = "close"
    /\ \E e \in {"nil", "ERROR_INVALID_HANDLE"} :
         /\ closeCalls' = [closeCalls EXCEPT ![idx] = @ + 1]
         /\ IF ~CloseLoopContinues(e)
            THEN /\ fetchRet' = [src |-> "close", err |-> e]
                 /\ pc' = "idle"
                 /\ ret' = GatherOnError(e)
                 /\ idx' = idx
            ELSE /\ fetchRet' = NoFetch
                 /\ ret' = ret
                 /\ IF idx = Len(eventHandles)
                    THEN pc' = "emit" /\ idx' = 1
                    ELSE pc' = "close" /\ idx' = idx + 1
    /\ UNCHANGED <<subscription, bufLen, eventHandles, events, emitted, subAnswer,
                   subscribeOks, lastPull, pulls, renderLog, nextSlot, bc,
                   filterVars, eventVars, otherVars>>

\* createDescriptionFromEvent: the EventData values joined with "|", line
\* breaks collapsed.
createDescriptionFromEvent(event) == crlfReReplaceAll(Join(event.EventData, "|"))

\* Gather taking the parsed time whether time.Parse failed or not.
timeStampNoFallback(event) == "event"

\* Gather, the timestamp of a record: the time parsed from
\* TimeCreated.SystemTime ("event"), or time.Now() when time.Parse fails
\* ("now"). w.TimeStampFromEvent is not read.
timeStamp(event) == IF event.timeOk THEN "event" ELSE "now"

\* The record Gather hands to acc.AddFields for one event: the field and tag
\* mappings with the type of each value, and the timestamp.
Record(event) ==
    [fields |->
        [record_id |-> [type |-> "int", value |-> event.handle],
         event_id |-> [type |-> "int", value |-> event.EventID],
         level |-> [type |-> "int", value |-> event.Level],
         message |-> [type |-> "string", value |-> event.Message],
         description |-> [type |-> "string", value |-> createDescriptionFromEvent(event)],
         source |-> [type |-> "string", value |-> event.Source],
         created |-> [type |-> "string", value |-> IF event.timeOk THEN <<"x">> ELSE <<>>]],
     tags |-> [eventlog_name |-> [type |-> "string", value |-> event.Channel]],
     timeStamp |-> timeStamp(event)]

\* Gather, the loop over the events fetchEvents returned without error.
Emit ==
    /\ pc = "emit"
    /\ emitted' = emitted \o [i \in 1..Len(events) |-> Record(events[i])]
    /\ pc' = "fetch"
    /\ UNCHANGED <<subscription, bufLen, eventHandles, idx, events, fetchRet, ret,
                   subAnswer, subscribeOks, lastPull, pulls, renderLog, closeCalls,
                   nextSlot, bc,
                   filterVars, eventVars, otherVars>>

(***************************************************************************)
(* Buffered native calls: formatEventString and DisplayNameStartType.      *)
(* bc.sizes are the buffer sizes passed to the native operation so far,    *)
(* bc.answers what it answered (error and reported size) to each call.     *)
(***************************************************************************)
NoCall == [fn |-> "none", pc |-> "idle", flag |-> "none", n |-> 0,
           sizes |-> <<>>, answers |-> <<>>,
           ret |-> [status |-> "none", err |-> "nil"]]

FormatSizes == 0..MaxFormatSize
QscSizes == {512 * k : k \in 0..MaxSizeFactor}

\* A call of formatEventString(flag, ...) or of DisplayNameStartType(s) begins.
BcStart ==
    /\ bc.pc \in {"idle", "done"}
    /\ \/ \E flag \in FormatFlags :
            bc' = [NoCall EXCEPT !.fn = "formatEventString", !.pc = "first", !.flag = flag]
       \/ bc' = [NoCall EXCEPT !.fn = "DisplayNameStartType", !.pc = "query",
                               !.n = InitialConfigSize]
    /\ UNCHANGED <<gatherVars, filterVars, eventVars, otherVars>>

\* formatEventString after the first _EvtFormatMessage (no buffer, size 0):
\* an error other than ERROR_INSUFFICIENT_BUFFER is returned; otherwise a
\* buffer of bufferUsed*2 bytes is made and &buffer[0] is taken, which panics
\* on an empty buffer.
formatAfterFirst(b, err, used) ==
    LET logged == [b EXCEPT !.sizes = Append(@, 0),
                            !.answers = Append(@, [err |-> err, size |-> used])]
        bytes == used * 2   \* uint32; the sizes of the model stay far below 2^32
    IN IF err # "nil" /\ err # "ERROR_INSUFFICIENT_BUFFER"
       THEN [logged EXCEPT !.pc = "done", !.ret = [status |-> "err", err |-> err]]
       ELSE IF bytes = 0
       THEN [logged EXCEPT !.pc = "done", !.ret = [status |-> "panic", err |-> "nil"]]
       ELSE [logged EXCEPT !.pc = "second", !.n = bytes]

FormatFirst ==
    /\ bc.fn = "formatEventString" /\ bc.pc = "first"
    /\ \E err \in {"nil", "ERROR_INSUFFICIENT_BUFFER", "ERROR_EVT_MESSAGE_NOT_FOUND"},
          used \in FormatSizes :
         bc' = formatAfterFirst(bc, err, used)
    /\ UNCHANGED <<gatherVars, filterVars, eventVars, otherVars>>

\* formatEventString after the second _EvtFormatMessage (len(buffer)/2
\* characters): any error is returned, then DecodeUTF16 may fail.
formatAfterSecond(b, err, used, decodeOk) ==
    LET logged == [b EXCEPT !.sizes = Append(@, b.n \div 2),
                            !.answers = Append(@, [err |-> err, size |-> used])]
    IN IF err # "nil"
       THEN [logged EXCEPT !.pc = "done", !.ret = [status |-> "err", err |-> err]]
       ELSE IF ~decodeOk
       THEN [logged EXCEPT !.pc = "done", !.ret = [status |-> "err", err |-> "DecodeError"]]
       ELSE [logged EXCEPT !.pc = "done", !.ret = [status |-> "ok", err |-> "nil"]]

FormatSecond ==
    /\ bc.fn = "formatEventString" /\ bc.pc = "second"
    /\ \E err \in {"nil", "ERROR_INSUFFICIENT_BUFFER", "ERROR_EVT_MESSAGE_NOT_FOUND"},
          used \in FormatSizes, decodeOk \in BOOLEAN :
         /\ err = "nil" => used <= bc.n \div 2
         /\ bc' = formatAfterSecond(bc, err, used, decodeOk)
    /\ UNCHANGED <<gatherVars, filterVars, eventVars, otherVars>>

\* DisplayNameStartType without the check of n against len(b).
queryAfterCallNoProgressCheck(b, err, needed) ==
    LET logged == [b EXCEPT !.sizes = Append(@, b.n),
                            !.answers = Append(@, [err |-> err, size |-> needed])]
    IN IF err = "nil"
       THEN [logged EXCEPT !.pc = "done", !.ret = [status |-> "ok", err |-> "nil"]]
       ELSE IF err # "ERROR_INSUFFICIENT_BUFFER"
       THEN [logged EXCEPT !.pc = "done", !.ret = [status |-> "err", err |-> err]]
       ELSE [logged EXCEPT !.pc = "query", !.n = needed]

\* DisplayNameStartType, one turn of its loop: b := make([]byte, n), then
\* QueryServiceConfig(s.Handle, p, n, &n). Success ends the loop, an error other
\* than ERROR_INSUFFICIENT_BUFFER is returned, and so is one whose reported size
\* does not exceed len(b); otherwise the loop goes round with the new n.
queryAfterCall(b, err, needed) ==
    LET logged == [b EXCEPT !.sizes = Append(@, b.n),
                            !.answers = Append(@, [err |-> err, size |-> needed])]
    IN IF err = "nil"
       THEN [logged EXCEPT !.pc = "done", !.ret = [status |-> "ok", err |-> "nil"]]
       ELSE IF err # "ERROR_INSUFFICIENT_BUFFER"
       THEN [logged EXCEPT !.pc = "done", !.ret = [status |-> "err", err |-> err]]
       ELSE IF needed <= b.n
       THEN [logged EXCEPT !.pc = "done", !.ret = [status |-> "err", err |-> err]]
       ELSE [logged EXCEPT !.pc = "query", !.n = needed]

QueryServiceConfig ==
    /\ bc.fn = "DisplayNameStartType" /\ bc.pc = "query"
    /\ \E err \in {"nil", "ERROR_INSUFFICIENT_BUFFER", "ERROR_ACCESS_DENIED"},
          needed \in QscSizes :
         bc' = queryAfterCall(bc, err, needed)
    /\ UNCHANGED <<gatherVars, filterVars, eventVars, otherVars>>

(***************************************************************************)
(* Field classification. A name and a pattern are sequences of tokens; in  *)
(* a pattern "*" and "?" are the wildcards of filepath.Match, "[" opens a  *)
(* character class that is never closed (ErrBadPattern), and any other     *)
(* token is literal text.                                                  *)
(***************************************************************************)
Alphabet == {"a", "b"}
Patterns == {<<"*">>, <<"a", "*">>, <<"?", "b">>, <<"[">>}

RECURSIVE SeqsUpTo(_, _)
SeqsUpTo(S, n) ==
    IF n = 0 THEN {<<>>}
    ELSE LET shorter == SeqsUpTo(S, n - 1)
         IN shorter \cup {Append(q, x) : q \in shorter, x \in S}

FieldNames == SeqsUpTo(Alphabet, MaxNameLen)
PatternLists == SeqsUpTo(Patterns, MaxListLen)

\* filepath.Match(pattern, name): matched is false whenever it returns
\* ErrBadPattern, and the callers drop the error.
RECURSIVE Match(_, _)
Match(pattern, name) ==
    IF pattern = <<>> THEN name = <<>>
    ELSE LET t == Head(pattern) IN
         IF t = "*"
         THEN \E k \in 0..Len(name) :
                Match(Tail(pattern), SubSeq(name, k + 1, Len(name)))
         ELSE IF t = "["
         THEN FALSE
         ELSE IF t = "?"
         THEN name # <<>> /\ Match(Tail(pattern), Tail(name))
         ELSE name # <<>> /\ Head(name) = t /\ Match(Tail(pattern), Tail(name))

\* `for _, pattern := range list { if matched { return ... } }`
RECURSIVE AnyMatch(_, _)
AnyMatch(list, field) ==
    IF list = <<>> THEN FALSE
    ELSE IF Match(Head(list), field) THEN TRUE
    ELSE AnyMatch(Tail(list), field)

\* shouldExclude finding no field excluded.
shouldExcludeNever(field) == FALSE

shouldExclude(field) == AnyMatch(ExcludeFields, field)

\* shouldProcessField consulting the exclude list before the tag list.
shouldProcessFieldExcludeFirst(field) ==
    IF shouldExclude(field)
    THEN [should |-> FALSE, list |-> "excluded"]
    ELSE IF AnyMatch(EventTags, field)
    THEN [should |-> TRUE, list |-> "tags"]
    ELSE IF AnyMatch(EventFields, field)
    THEN [should |-> TRUE, list |-> "fields"]
    ELSE [should |-> FALSE, list |-> "excluded"]

shouldProcessField(field) ==
    IF AnyMatch(EventTags, field)
    THEN [should |-> TRUE, list |-> "tags"]
    ELSE IF AnyMatch(EventFields, field)
    THEN IF shouldExclude(field)
         THEN [should |-> FALSE, list |-> "excluded"]
         ELSE [should |-> TRUE, list |-> "fields"]
    ELSE [should |-> FALSE, list |-> "excluded"]

MaxEmptyListLen == 2

EmptyLists == SeqsUpTo(Patterns, MaxEmptyListLen)

\* The values shouldExcludeEmptyField is asked about, with their declared type.
TypedValues ==
    {[type |-> "string", value |-> <<>>], [type |-> "string", value |-> <<"x">>]}
    \cup [type : {"int", "uint32"}, value : {0, 5}]
    \cup [type : {"float64"}, value : {0}]

\* shouldExcludeEmptyField deciding on the value alone, whatever its type.
RECURSIVE shouldExcludeEmptyFieldAnyType(_, _, _, _)
shouldExcludeEmptyFieldAnyType(list, field, fieldType, fieldValue) ==
    IF list = <<>> THEN FALSE
    ELSE IF Match(Head(list), field)
    THEN IF fieldType = "string" THEN Len(fieldValue) < 1 ELSE fieldValue = 0
    ELSE shouldExcludeEmptyFieldAnyType(Tail(list), field, fieldType, fieldValue)

\* shouldExcludeEmptyField with list the patterns of w.ExcludeEmpty still to
\* try: the first matching pattern decides for a string, int or uint32; for
\* another type the switch has no case and the loop goes on.
RECURSIVE shouldExcludeEmptyField(_, _, _, _)
shouldExcludeEmptyField(list, field, fieldType, fieldValue) ==
    IF list = <<>> THEN FALSE
    ELSE IF Match(Head(list), field) /\ fieldType = "string"
    THEN Len(fieldValue) < 1
    ELSE IF Match(Head(list), field) /\ fieldType \in {"int", "uint32"}
    THEN fieldValue = 0
    ELSE shouldExcludeEmptyField(Tail(list), field, fieldType, fieldValue)

NotChecked == [field |-> <<>>, fieldType |-> "none", fieldValue |-> 0, should |-> FALSE]

\* One call of shouldExcludeEmptyField.
CheckEmpty ==
    /\ \E f \in FieldNames, tv \in TypedValues :
         emptyChecked' =
            [field |-> f, fieldType |-> tv.type, fieldValue |-> tv.value,
             should |-> shouldExcludeEmptyField(ExcludeEmpty, f, tv.type, tv.value)]
    /\ UNCHANGED <<gatherVars, bc, filterVars, ExcludeEmpty, TimeStampFromEvent, ev,
                   text, otherVars>>

NoText == [flag |-> "none", answer |-> FormatFailed, value |-> <<>>]

\* One formatting request of renderEvent with its assignment to the event;
\* text.value is the event's field after it.
Format ==
    /\ text = NoText
    /\ \E flag \in FormatFlags :
       \E answer \in {FormatFailed} \cup {[err |-> "nil", result |-> s] : s \in Strings} :
         LET before == Unmarshal(1, DefaultXml, "full")
             after == populate(before, flag, formatEventString(flag, answer))
         IN text' = [flag |-> flag, answer |-> answer, value |-> after[FieldOf(flag)]]
    /\ UNCHANGED <<gatherVars, bc, filterVars, ExcludeEmpty, TimeStampFromEvent, ev,
                   emptyChecked, otherVars>>

NotClassified == [field |-> <<>>, should |-> FALSE, list |-> "none"]

\* One call of shouldProcessField on some field name.
Classify ==
    /\ \E f \in FieldNames :
         LET r == shouldProcessField(f)
         IN classified' = [field |-> f, should |-> r.should, list |-> r.list]
    /\ UNCHANGED <<gatherVars, bc, EventTags, EventFields, ExcludeFields, eventVars, otherVars>>

(***************************************************************************)
(* WinEventLog: one event from renderEvent to acc.AddFields, with every    *)
(* answer of the XML decoding and of the formatting requests.              *)
(***************************************************************************)
EventOutcomes ==
    {[renderErr |-> "ERROR_INVALID_HANDLE", bufferUsed |-> 0, path |-> "resolved",
      xml |-> DefaultXml, fmt |-> AllFormatted]}
    \cup {[renderErr |-> "nil", bufferUsed |-> bufferSize \div 2, path |-> p,
           xml |-> x, fmt |-> AllFormatted] :
            p \in RenderPaths \ {"resolved"}, x \in XmlSamples}
    \cup {[renderErr |-> "nil", bufferUsed |-> bufferSize \div 2, path |-> "resolved",
           xml |-> x, fmt |-> f] :
            x \in XmlSamples, f \in [FormatFlags -> FormatAnswers]}

NoRecord == [fields |-> <<>>, tags |-> <<>>, timeStamp |-> "none"]

NoEv ==
    [pc |-> "idle",
     nat |-> [renderErr |-> "none", bufferUsed |-> 0, path |-> "none",
              xml |-> DefaultXml, fmt |-> AllFormatted],
     event |-> NoEvent, err |-> "none", calls |-> <<>>, record |-> NoRecord]

\* fetchEvents calling renderEvent on a non-null handle.
EvRender ==
    /\ ev.pc = "idle"
    /\ \E nat \in EventOutcomes :
         LET r == renderEvent(1, bufLen, nat) IN
           /\ ev' = [pc |-> IF r.err = "nil" THEN "rendered" ELSE "failed",
                     nat |-> nat, event |-> r.event, err |-> r.err,
                     calls |-> r.calls, record |-> NoRecord]
           /\ bufLen' = r.bufLen
    /\ UNCHANGED <<subscription, pc, eventHandles, idx, events, fetchRet, emitted, ret,
                   subAnswer, subscribeOks, lastPull, pulls, renderLog, closeCalls,
                   nextSlot, bc, filterVars, ExcludeEmpty, TimeStampFromEvent,
                   emptyChecked, text, otherVars>>

\* Gather, the body of the loop over the events for an event fetchEvents
\* returned.
EvEmit ==
    /\ ev.pc = "rendered"
    /\ ev' = [ev EXCEPT !.pc = "emitted", !.record = Record(ev.event)]
    /\ UNCHANGED <<gatherVars, bc, filterVars, ExcludeEmpty, TimeStampFromEvent,
                   emptyChecked, text, otherVars>>

(***************************************************************************)
(* WinServices: one Gather call. A service is named by a number; the       *)
(* manager lists the services 1..n in that order.                          *)
(***************************************************************************)
MaxServices == 3

Services == 1..MaxServices

ServiceErrors == {"ERROR_ACCESS_DENIED", "ERROR_SERVICE_DOES_NOT_EXIST"}

\* What the service manager answers for one service: the errors of
\* OpenService and of Query, and how DisplayNameStartType ends (a display
\* name, an empty display name, or an error).
ServiceAnswers ==
    {[open |-> o, query |-> "nil", config |-> "name"] : o \in ServiceErrors}
    \cup {[open |-> "nil", query |-> q, config |-> "name"] : q \in ServiceErrors}
    \cup {[open |-> "nil", query |-> "nil", config |-> c] : c \in {"name", "empty", "err"}}

NoServiceErr == [Message |-> "", Service |-> 0, Err |-> "nil"]
NoServiceInfo == [ServiceName |-> 0, DisplayName |-> "", State |-> 0, StartUpMode |-> 0]

\* listServices: the listed names the filter matches, in the listed order.
listServices(names, matched) == SelectSeq(names, LAMBDA n : n \in matched)

\* collectServiceInfo: a failed OpenService or Query gives a ServiceErr; a
\* failed DisplayNameStartType only replaces the display name.
collectServiceInfo(serviceName, nat) ==
    IF nat.open # "nil"
    THEN [info |-> NoServiceInfo,
          err |-> [Message |-> "could not open service", Service |-> serviceName,
                   Err |-> nat.open]]
    ELSE IF nat.query # "nil"
    THEN [info |-> NoServiceInfo,
          err |-> [Message |-> "could not query service", Service |-> serviceName,
                   Err |-> nat.query]]
    ELSE [info |-> [ServiceName |-> serviceName,
                    DisplayName |-> CASE nat.config = "name" -> "display"
                                      [] nat.config = "empty" -> ""
                                      [] nat.config = "err" -> "Could not get config of service",
                    State |-> 4,
                    StartUpMode |-> IF nat.config = "err" THEN 0 ELSE 2],
          err |-> NoServiceErr]

\* IsPermission taking every error for a permission error.
IsPermissionAlways(err) == TRUE

\* IsPermission: os.IsPermission of the error the ServiceErr wraps.
IsPermission(err) == err.Err = "ERROR_ACCESS_DENIED"

\* Gather, the record handed to acc.AddFields for one service; display_name
\* is only set when the display name is not empty.
ServiceRecord(service) ==
    [tags |-> [service_name |-> service.ServiceName],
     fields |-> IF service.DisplayName # ""
                THEN [state |-> service.State, startup_mode |-> service.StartUpMode,
                      display_name |-> service.DisplayName]
                ELSE [state |-> service.State, startup_mode |-> service.StartUpMode]]

NoSvc ==
    [pc |-> "idle", serviceNames |-> <<>>, i |-> 0, answers |-> <<>>,
     records |-> <<>>, log |-> <<>>, ret |-> "none", disconnects |-> 0]

\* Gather up to the loop: Connect and listServices; an error of either ends
\* the call.
SvcConnect ==
    /\ svc.pc \in {"idle", "done"}
    /\ \E connect \in {"nil", "ERROR_ACCESS_DENIED"}, list \in {"nil", "ERROR_ACCESS_DENIED"},
          n \in 0..MaxServices, matched \in SUBSET Services :
         /\ (connect # "nil" \/ list # "nil") => (n = 0 /\ matched = {})
         /\ connect # "nil" => list = "nil"
         /\ svc' = IF connect # "nil"
                   THEN [NoSvc EXCEPT !.pc = "done", !.ret = "Could not open service manager"]
                   ELSE IF list # "nil"
                   THEN [NoSvc EXCEPT !.pc = "done", !.ret = "Could not list services",
                                      !.disconnects = 1]
                   ELSE [NoSvc EXCEPT !.pc = "loop", !.ret = "running", !.i = 1,
                            !.serviceNames = listServices([k \in 1..n |-> k], matched)]
    /\ UNCHANGED <<gatherVars, bc, filterVars, eventVars, prg>>

\* Gather, one iteration of the loop over serviceNames.
SvcCollect ==
    /\ svc.pc = "loop"
    /\ svc.i <= Len(svc.serviceNames)
    /\ \E nat \in ServiceAnswers :
         LET srvName == svc.serviceNames[svc.i]
             r == collectServiceInfo(srvName, nat)
         IN svc' = IF r.err # NoServiceErr
                   THEN [svc EXCEPT !.i = @ + 1,
                            !.answers = Append(@, nat),
                            !.log = Append(@, [service |-> srvName,
                                     level |-> IF IsPermission(r.err) THEN "debug" ELSE "error"])]
                   ELSE [svc EXCEPT !.i = @ + 1,
                            !.answers = Append(@, nat),
                            !.records = Append(@, ServiceRecord(r.info))]
    /\ UNCHANGED <<gatherVars, bc, filterVars, eventVars, prg>>

\* Gather, after the loop: return nil, the deferred Disconnect runs.
SvcReturn ==
    /\ svc.pc = "loop"
    /\ svc.i > Len(svc.serviceNames)
    /\ svc' = [svc EXCEPT !.pc = "done", !.ret = "nil", !.disconnects = @ + 1]
    /\ UNCHANGED <<gatherVars, bc, filterVars, eventVars, prg>>

(***************************************************************************)
(* The Windows service program: Start, the goroutine running run(), and    *)
(* Stop called by the service manager. stop is the package variable        *)
(* holding the stop channel: 0 is the nil channel, StopChan the channel    *)
(* run() makes. prg.log are the messages logged so far.                    *)
(***************************************************************************)
StopChan == 1

NoPrg ==
    [start |-> "idle", run |-> "none", stopPc |-> "idle", stop |-> 0,
     loaded |-> 0, closed |-> {}, watched |-> 0, done |-> "nil", log |-> <<>>]

\* The process is alive: closing a nil channel panics and ends it.
Alive == prg.stopPc # "panicked"

\* program.Start, statement by statement: log, make(done), go func, log,
\* return nil. It never receives from done.
Start ==
    /\ Alive
    /\ \/ /\ prg.start = "idle"
          /\ prg' = [prg EXCEPT !.start = "called",
                                !.log = Append(@, "Service start called")]
       \/ /\ prg.start = "called"
          /\ prg' = [prg EXCEPT !.start = "made", !.done = "open"]
       \/ /\ prg.start = "made"
          /\ prg' = [prg EXCEPT !.start = "spawned", !.run = "spawned"]
       \/ /\ prg.start = "spawned"
          /\ prg' = [prg EXCEPT !.start = "logged",
                                !.log = Append(@, "Start method returned")]
       \/ /\ prg.start = "logged"
          /\ prg' = [prg EXCEPT !.start = "returned"]
    /\ UNCHANGED <<gatherVars, bc, filterVars, eventVars, svc>>

\* The goroutine of Start and program.run up to the call of reloadLoop: log,
\* log, time.Sleep(2 * time.Minute), stop = make(chan struct{}).
Run ==
    /\ Alive
    /\ \/ /\ prg.run = "spawned"
          /\ prg' = [prg EXCEPT !.run = "calling", !.log = Append(@, "Calling run()")]
       \/ /\ prg.run = "calling"
          /\ prg' = [prg EXCEPT !.run = "sleeping", !.log = Append(@, "Start run()")]
       \/ /\ prg.run = "sleeping"
          /\ prg' = [prg EXCEPT !.run = "slept"]
       \/ /\ prg.run = "slept"
          /\ prg' = [prg EXCEPT !.run = "made", !.stop = StopChan]
    /\ UNCHANGED <<gatherVars, bc, filterVars, eventVars, svc>>

\* reloadLoop starts to wait on the channel stop holds.
ReloadLoopWait ==
    /\ Alive
    /\ prg.run = "made"
    /\ prg' = [prg EXCEPT !.run = "waiting", !.watched = prg.stop]
    /\ UNCHANGED <<gatherVars, bc, filterVars, eventVars, svc>>

\* reloadLoop observes that the channel it waits on is closed and returns;
\* run logs and the goroutine closes done.
ReloadLoopStopped ==
    /\ Alive
    /\ \/ /\ prg.run = "waiting"
          /\ prg.watched \in prg.closed
          /\ prg' = [prg EXCEPT !.run = "stopped"]
       \/ /\ prg.run = "stopped"
          /\ prg' = [prg EXCEPT !.run = "finished", !.log = Append(@, "Run finished.")]
       \/ /\ prg.run = "finished"
          /\ prg' = [prg EXCEPT !.run = "exited", !.done = "closed"]
    /\ UNCHANGED <<gatherVars, bc, filterVars, eventVars, svc>>

\* The values a read of stop by Stop can yield: no synchronization orders it
\* with the write in run, so the nil channel can be read even after the write.
StopReads == {0, prg.stop}

\* program.Stop, called by the service manager once Start has returned:
\* close(stop) reads the variable and closes the channel it read, then
\* Stop returns nil.
Stop ==
    /\ Alive
    /\ prg.start = "returned"
    /\ \/ /\ prg.stopPc = "idle"
          /\ \E c \in StopReads : prg' = [prg EXCEPT !.stopPc = "read", !.loaded = c]
       \/ /\ prg.stopPc = "read"
          /\ prg' = IF prg.loaded = 0
                    THEN [prg EXCEPT !.stopPc = "panicked"]
                    ELSE [prg EXCEPT !.stopPc = "closed",
                                     !.closed = @ \cup {prg.loaded}]
       \/ /\ prg.stopPc = "closed"
          /\ prg' = [prg EXCEPT !.stopPc = "returned"]
    /\ UNCHANGED <<gatherVars, bc, filterVars, eventVars, svc>>

(***************************************************************************)
(* Specifications.                                                         *)
(***************************************************************************)
\* The instance as init() builds it, before any Gather call.
InitGather ==
    /\ subscription = 0
    /\ bufLen = bufferSize
    /\ pc = "idle"
    /\ eventHandles = <<>>
    /\ idx = 0
    /\ events = <<>>
    /\ fetchRet = NoFetch
    /\ emitted = <<>>
    /\ ret = "none"
    /\ subAnswer = "none"
    /\ subscribeOks = 0
    /\ lastPull = NoPull
    /\ pulls = 0
    /\ renderLog = <<>>
    /\ closeCalls = <<>>
    /\ nextSlot = 1

\* The pattern lists init() sets.
DefaultExcludeEmpty ==
    << <<"Task">>, <<"Opcode">>, <<"*", "ActivityID">>, <<"UserID">> >>

InitConfig ==
    /\ EventTags = << <<"Source">>, <<"EventID">>, <<"Level">>, <<"LevelText">>,
                      <<"Keywords">>, <<"Channel">>, <<"Computer">> >>
    /\ EventFields = << <<"*">> >>
    /\ ExcludeFields = <<>>
    /\ classified = NotClassified

\* No event is on its way, no helper has been called.
InitEvent ==
    /\ ev = NoEv
    /\ emptyChecked = NotChecked
    /\ text = NoText
    /\ svc = NoSvc
    /\ prg = NoPrg

\* The options init() sets beside the pattern lists.
InitOptions ==
    /\ ExcludeEmpty = DefaultExcludeEmpty
    /\ TimeStampFromEvent = TRUE

Init == InitGather /\ bc = NoCall /\ InitConfig /\ InitOptions /\ InitEvent

Next == GatherEnter \/ Pull \/ Render \/ Close \/ Emit

Spec == Init /\ [][Next]_vars

\* Gather is sequential code: once it is running, the step it has reached is
\* taken. Nothing obliges the caller to call Gather.
SpecLive ==
    Spec /\ WF_vars(Pull) /\ WF_vars(Render) /\ WF_vars(Close) /\ WF_vars(Emit)

NextBuf == BcStart \/ FormatFirst \/ FormatSecond \/ QueryServiceConfig

SpecBuf == Init /\ [][NextBuf]_vars

\* Any configuration of the three pattern lists within the bounds.
InitFilter ==
    /\ InitGather
    /\ bc = NoCall
    /\ EventTags \in PatternLists
    /\ EventFields \in PatternLists
    /\ ExcludeFields \in PatternLists
    /\ classified = NotClassified
    /\ InitOptions
    /\ InitEvent

NextFilter == Classify

SpecFilter == InitFilter /\ [][NextFilter]_vars

\* Any exclude-empty list within the bounds.
InitEmpty ==
    /\ InitGather
    /\ bc = NoCall
    /\ InitConfig
    /\ ExcludeEmpty \in EmptyLists
    /\ TimeStampFromEvent = TRUE
    /\ InitEvent

NextEmpty == CheckEmpty

SpecEmpty == InitEmpty /\ [][NextEmpty]_vars

NextText == Format

SpecText == Init /\ [][NextText]_vars

\* The configurations one event is followed under: the pattern lists init()
\* sets or lists that leave every name excluded, the exclude-empty list
\* init() sets or one naming every field or the message, either value of
\* timestamp_from_event.
InitOneEvent ==
    /\ InitGather
    /\ bc = NoCall
    /\ \/ InitConfig
       \/ /\ EventTags = <<>>
          /\ EventFields = << <<"*">> >>
          /\ ExcludeFields = << <<"*">> >>
          /\ classified = NotClassified
    /\ ExcludeEmpty \in {DefaultExcludeEmpty, << <<"*">> >>, << <<"message">> >>}
    /\ TimeStampFromEvent \in BOOLEAN
    /\ InitEvent

NextEvent == EvRender \/ EvEmit

SpecEvent == InitOneEvent /\ [][NextEvent]_vars

NextSvc == SvcConnect \/ SvcCollect \/ SvcReturn

SpecSvc == Init /\ [][NextSvc]_vars

NextPrg == Start \/ Run \/ ReloadLoopWait \/ ReloadLoopStopped \/ Stop

SpecPrg == Init /\ [][NextPrg]_vars

(***************************************************************************)
(* Properties of the subscription loop (Spec).                             *)
(***************************************************************************)
\* fetchEvents is not running: it has returned for the batch in eventHandles.
FetchReturned == pc \notin {"render", "close"}

\* C1: once fetchEvents has returned, _EvtClose has been called exactly once
\* on every handle of the batch it pulled, whatever the renders and the other
\* releases answered.
C1_HandleRelease ==
    FetchReturned => \A i \in 1..Len(eventHandles) : closeCalls[i] = 1

\* C2: a Gather call invokes evtSubscribe exactly when no handle is stored; a
\* stored non-zero handle is never changed by any step, and the instance sees
\* at most one successful subscribe.
C2_SubscriptionLifecycle ==
    [][ /\ (pc = "idle" => ((subAnswer' # "none") <=> (subscription = 0)))
        /\ (subscription # 0 => subscription' = subscription)
        /\ subscribeOks' <= 1 ]_vars

\* A later Gather call runs on the handle an earlier call stored, without
\* subscribing again.
C2_Witness ==
    /\ pc = "fetch"
    /\ subscription # 0
    /\ subAnswer = "none"
    /\ subscribeOks = 1

SubscribeFailed == subAnswer \notin {"none", "ok"}

\* C3: a Gather call whose evtSubscribe fails returns the subscription error
\* without a pull or a record and leaves the handle zero, and the next Gather
\* call invokes evtSubscribe again.
C3_SubscriptionFailure ==
    /\ [](SubscribeFailed =>
            /\ ret = "SubscriptionError"
            /\ pc = "idle"
            /\ subscription = 0
            /\ pulls = 0
            /\ lastPull = NoPull
            /\ emitted = <<>>)
    /\ [][(SubscribeFailed /\ pc = "idle") => subAnswer' # "none"]_vars

\* A Gather call failed to subscribe.
C3_Witness ==
    /\ subAnswer = "subscribeErr"
    /\ ret = "SubscriptionError"
    /\ subscription = 0

\* _EvtNext answered ERROR_INVALID_OPERATION and returned nothing.
EndOfBacklog(p) == p.err = "ERROR_INVALID_OPERATION" /\ p.returned = 0

\* C4: after a pull that reports the end of the backlog the Gather call is
\* over with nil and that pull was its last; when it was the first pull of
\* the call, nothing was emitted.
C4_EndOfBacklog ==
    EndOfBacklog(lastPull) =>
        /\ pc = "idle"
        /\ ret = "nil"
        /\ fetchRet.src = "pull"
        /\ (pulls = 1 => emitted = <<>>)

\* The first pull of a Gather call reports the end of the backlog.
C4_Witness ==
    /\ EndOfBacklog(lastPull)
    /\ pulls = 1
    /\ ret = "nil"
    /\ emitted = <<>>

PullFailed(p) == p.err \notin {"none", "nil"}

\* C5 as stated: a pull failing with anything but the end-of-backlog condition
\* ends the Gather call with that error, the subscription handle unchanged.
C5_Original ==
    (PullFailed(lastPull) /\ ~EndOfBacklog(lastPull)) =>
        /\ pc = "idle"
        /\ ret = lastPull.err
        /\ subscription = lastPull.sub

\* C5 (amended): a pull failing with an error that is neither the
\* end-of-backlog condition nor ERROR_NO_MORE_ITEMS ends the Gather call with
\* that error; a pull failing with ERROR_NO_MORE_ITEMS itself ends it with nil;
\* either way no further pull is made and the subscription handle is unchanged.
C5_OtherPullErrors ==
    (PullFailed(lastPull) /\ ~EndOfBacklog(lastPull)) =>
        /\ pc = "idle"
        /\ fetchRet.src = "pull"
        /\ subscription = lastPull.sub
        /\ subscription # 0
        /\ ret = IF lastPull.err = "ERROR_NO_MORE_ITEMS" THEN "nil" ELSE lastPull.err

\* A pull failed with ERROR_INVALID_OPERATION although a handle was returned,
\* after an earlier batch of the same call had been emitted.
C5_Witness ==
    /\ lastPull.err = "ERROR_INVALID_OPERATION"
    /\ lastPull.returned = 1
    /\ ret = "ERROR_INVALID_OPERATION"
    /\ pulls = 2
    /\ emitted # <<>>

\* The handles the render loop has gone through so far, the null ones left out.
NonNull(hs) == SelectSeq(hs, LAMBDA h : h # 0)
LoopedHandles ==
    IF pc = "render" THEN SubSeq(eventHandles, 1, idx - 1) ELSE eventHandles
RenderedOk == SelectSeq(renderLog, LAMBDA l : l.err = "nil")

\* C6: in every batch each non-null handle is rendered, whatever the renders
\* before it answered; fetchEvents keeps running and returns no error while it
\* renders; and its events are exactly the handles whose render succeeded, in
\* order.
C6_PerEventContainment ==
    Len(eventHandles) > 0 =>
        /\ [i \in 1..Len(renderLog) |-> renderLog[i].handle] = NonNull(LoopedHandles)
        /\ [i \in 1..Len(events) |-> events[i].handle]
             = [i \in 1..Len(RenderedOk) |-> RenderedOk[i].handle]
        /\ (pc \in {"render", "close"} => ret = "running" /\ fetchRet = NoFetch)

\* A batch is being emitted in which a render failed, a later render succeeded
\* and an earlier one as well.
C6_Witness ==
    /\ pc = "emit"
    /\ Len(renderLog) = 3
    /\ renderLog[1].err = "nil"
    /\ renderLog[2].err # "nil"
    /\ renderLog[3].err = "nil"
    /\ Len(events) = 2

\* C7: whenever _EvtRender answered ERROR_INSUFFICIENT_BUFFER with a required
\* size above len(w.buf), renderEvent grew w.buf to exactly that size and
\* rendered the event.
C7_RenderBufferGrowth ==
    \A i \in 1..Len(renderLog) :
        (/\ renderLog[i].nativeErr = "ERROR_INSUFFICIENT_BUFFER"
         /\ renderLog[i].required > renderLog[i].bufBefore)
        => (renderLog[i].err = "nil" /\ renderLog[i].bufAfter = renderLog[i].required)

(***************************************************************************)
(* Properties of the buffered native calls (SpecBuf).                      *)
(***************************************************************************)
\* C8 as stated: no buffered call invokes the native operation more than twice.
C8_Original == Len(bc.sizes) <= 2

\* C8 (amended): formatEventString invokes the native operation at most twice;
\* DisplayNameStartType invokes it again only after ERROR_INSUFFICIENT_BUFFER
\* with a required size above the buffer just used, and then with exactly that
\* size, so its buffers grow strictly from call to call.
C8_BoundedRetry ==
    /\ (bc.fn = "formatEventString" => Len(bc.sizes) <= 2)
    /\ (bc.fn = "DisplayNameStartType" =>
          \A i \in 2..Len(bc.sizes) :
              /\ bc.answers[i - 1].err = "ERROR_INSUFFICIENT_BUFFER"
              /\ bc.sizes[i] = bc.answers[i - 1].size
              /\ bc.sizes[i] > bc.sizes[i - 1])
    /\ (bc.pc = "query" => Len(bc.sizes) < Cardinality(QscSizes))

\* DisplayNameStartType succeeded at its third call; a formatEventString call
\* is covered by the first conjunct at its second.
C8_Witness ==
    /\ bc.fn = "DisplayNameStartType"
    /\ bc.pc = "done"
    /\ Len(bc.sizes) = 3
    /\ bc.ret.status = "ok"

\* C9: a buffered call ends with the native error, and no further call, as
\* soon as the native operation fails after a resize, or reports
\* ERROR_INSUFFICIENT_BUFFER with a size not above the buffer just used, or
\* reports any other error.
C9_NonProgressingResize ==
    \A i \in 1..Len(bc.answers) :
        LET a == bc.answers[i] IN
          (\/ (i >= 2 /\ a.err # "nil")
           \/ (a.err = "ERROR_INSUFFICIENT_BUFFER" /\ a.size <= bc.sizes[i])
           \/ a.err \notin {"nil", "ERROR_INSUFFICIENT_BUFFER"})
          => /\ bc.pc = "done"
             /\ bc.ret = [status |-> "err", err |-> a.err]
             /\ Len(bc.answers) = i

(***************************************************************************)
(* Properties of the field classification (SpecFilter).                    *)
(***************************************************************************)
MatchesSome(list, field) == \E i \in 1..Len(list) : Match(list[i], field)

\* C10: a name that matches a tag pattern is classified Tag, whatever the field
\* and exclude patterns say about it.
C10_TagPrecedence ==
    (classified.list # "none" /\ MatchesSome(EventTags, classified.field))
        => (classified.should /\ classified.list = "tags")

\* A name matching a tag pattern, a field pattern and an exclude pattern was
\* classified Tag.
C10_Witness ==
    /\ classified.list = "tags"
    /\ classified.field = <<"a", "b">>
    /\ EventTags = << <<"?", "b">> >>
    /\ EventFields = << <<"a", "*">> >>
    /\ ExcludeFields = << <<"*">> >>

\* C11: a name is classified Field exactly when it matches no tag pattern,
\* matches a field pattern and matches no exclude pattern; a name that matches
\* no tag pattern and is not classified Field is classified Excluded.
C11_FieldClassification ==
    classified.list # "none" =>
        LET f == classified.field
            tag == MatchesSome(EventTags, f)
            field == MatchesSome(EventFields, f)
            excl == MatchesSome(ExcludeFields, f)
        IN /\ (classified.list = "fields" /\ classified.should)
                <=> (~tag /\ field /\ ~excl)
           /\ (classified.list = "excluded" /\ ~classified.should)
                <=> (~tag /\ (~field \/ excl))

\* A name matching no tag pattern, a field pattern and an exclude pattern was
\* classified Excluded.
C11_Witness ==
    /\ classified.list = "excluded"
    /\ classified.field = <<"a", "b">>
    /\ EventTags = << <<"[">> >>
    /\ EventFields = << <<"a", "*">> >>
    /\ ExcludeFields = << <<"?", "b">> >>

(***************************************************************************)
(* Properties of the record of one event (SpecEvent).                      *)
(***************************************************************************)
\* The names of the tag mapping and of the field mapping of the emitted record.
TagNames == DOMAIN ev.record.tags
RecordFieldNames == DOMAIN ev.record.fields

\* C12: in every emitted record each name of the tag mapping is classified Tag
\* by the configured patterns, each name of the field mapping is classified
\* Field, and no name classified Excluded appears in either mapping.
C12_ProjectionHonoursClassification ==
    ev.pc = "emitted" =>
        /\ \A n \in TagNames : shouldProcessField(<<n>>).list = "tags"
        /\ \A n \in RecordFieldNames : shouldProcessField(<<n>>).list = "fields"
        /\ \A n \in TagNames \cup RecordFieldNames :
              shouldProcessField(<<n>>).list # "excluded"

\* The value is the zero value of its type: empty string, integer 0, unsigned 0.
IsZeroValue(type, value) ==
    IF type = "string" THEN value = <<>>
    ELSE type \in {"int", "uint32"} /\ value = 0

\* C13: in every emitted record no tag and no field whose name matches an
\* exclude-empty pattern is present with the zero value of its type.
C13_EmptySuppression ==
    ev.pc = "emitted" =>
        /\ \A n \in TagNames :
              ~(/\ MatchesSome(ExcludeEmpty, <<n>>)
                /\ IsZeroValue(ev.record.tags[n].type, ev.record.tags[n].value))
        /\ \A n \in RecordFieldNames :
              ~(/\ MatchesSome(ExcludeEmpty, <<n>>)
                /\ IsZeroValue(ev.record.fields[n].type, ev.record.fields[n].value))

(***************************************************************************)
(* Properties of shouldExcludeEmptyField (SpecEmpty).                      *)
(***************************************************************************)
\* C14: shouldExcludeEmptyField returns true exactly when the name matches at
\* least one exclude-empty pattern, the declared type is string, int or uint32
\* and the value is the zero value of that type; otherwise it returns false.
C14_ShouldExcludeEmptyField ==
    emptyChecked.fieldType # "none" =>
        (emptyChecked.should <=>
            /\ MatchesSome(ExcludeEmpty, emptyChecked.field)
            /\ emptyChecked.fieldType \in {"string", "int", "uint32"}
            /\ IsZeroValue(emptyChecked.fieldType, emptyChecked.fieldValue))

\* A zero uint32 is suppressed by the second pattern of the list, the first
\* one not matching the name.
C14_Witness ==
    /\ emptyChecked.should
    /\ emptyChecked.fieldType = "uint32"
    /\ emptyChecked.field = <<"a", "b">>
    /\ ExcludeEmpty = << <<"[">>, <<"a", "*">> >>

(***************************************************************************)
(* Properties of renderEvent within the subscription loop (Spec).          *)
(***************************************************************************)
\* C15: when _EvtRender and the XML decoding succeed and openPublisherMetadata
\* fails, renderEvent returns the event without error and without issuing a
\* formatting request, the text fields keep the values they had after
\* decoding, and once fetchEvents has returned Gather has emitted the event.
C15_PublisherFailureNonFatal ==
    \A i \in 1..Len(renderLog) :
        (renderLog[i].nativeErr = "nil" /\ renderLog[i].path = "publisherErr") =>
            /\ renderLog[i].err = "nil"
            /\ renderLog[i].calls = <<>>
            /\ \E k \in 1..Len(events) :
                  events[k] = Unmarshal(renderLog[i].handle, DefaultXml, "full")
            /\ pc \in {"fetch", "idle"} =>
                  \E k \in 1..Len(emitted) :
                     /\ emitted[k].fields.record_id.value = renderLog[i].handle
                     /\ emitted[k].fields.event_id.value # 0
                     /\ emitted[k].fields.message.value = <<>>

(***************************************************************************)
(* Properties of the formatting requests and of the timestamp (SpecEvent). *)
(***************************************************************************)
\* renderEvent got as far as the formatting requests.
ReachedFormatting ==
    ev.pc # "idle" /\ ev.nat.renderErr = "nil" /\ ev.nat.path = "resolved"

C17_TimestampFromEventOff ==
    (ev.pc = "emitted" /\ ~TimeStampFromEvent) => ev.record.timeStamp = "now"

\* C18: an event whose creation time does not parse is still emitted, with the
\* wall-clock time as timestamp, and the step neither fails the event nor
\* touches the result of Gather.
C18_TimestampFallback ==
    [][ (ev.pc = "rendered" /\ ~ev.event.timeOk) =>
            /\ ev'.pc = "emitted"
            /\ ev'.record.fields.record_id.value = ev.event.handle
            /\ ev'.record.timeStamp = "now"
            /\ ev'.err = "nil"
            /\ ret' = ret ]_vars

\* A fully decoded event with an unparsable creation time has been emitted.
C18_Witness ==
    /\ ev.pc = "emitted"
    /\ ~ev.event.timeOk
    /\ ev.event.System = "full"
    /\ ev.record.timeStamp = "now"

(***************************************************************************)
(* Properties of the text values (SpecText).                               *)
(***************************************************************************)
\* s has no leading or trailing whitespace and no line break.
SingleLine(s) ==
    /\ s # <<>> => (s[1] \notin WhiteSpace /\ s[Len(s)] \notin WhiteSpace)
    /\ \A i \in 1..Len(s) : s[i] \notin LineBreaks

\* C19: after a successful formatting request the Message, LevelText, TaskText
\* or OpcodeText value is trimmed of whitespace and holds no carriage return
\* or line feed, and the Keywords value is the zero-terminated strings of
\* the result joined with commas.
C19_SingleLineText ==
    (text.flag # "none" /\ text.answer.err = "nil") =>
        IF text.flag = "EvtFormatMessageKeyword"
        THEN text.value = Join(FieldsFunc(text.answer.result), ",")
        ELSE SingleLine(text.value)

(***************************************************************************)
(* Properties of the render buffer (Spec).                                 *)
(***************************************************************************)
\* C20: over any sequence of Gather calls and renders the length of w.buf never
\* decreases, and every render is handed the instance's buffer as the
\* previous step left it.
C20_RenderBufferNeverShrinks ==
    [][ /\ bufLen' >= bufLen
        /\ Len(renderLog') > Len(renderLog) =>
              /\ renderLog'[Len(renderLog')].bufBefore = bufLen
              /\ renderLog'[Len(renderLog')].bufAfter = bufLen' ]_vars

\* A Gather call that found the subscription of an earlier call has rendered
\* an event into the buffer init() allocated.
C20_Witness ==
    /\ pc \in {"render", "close"}
    /\ subAnswer = "none"
    /\ renderLog # <<>>
    /\ renderLog[1].nativeErr = "nil"
    /\ renderLog[1].bufBefore = bufferSize
    /\ bufLen = bufferSize

(***************************************************************************)
(* Properties of the WinServices Gather call (SpecSvc).                    *)
(***************************************************************************)
\* The error OpenService or Query answered for the k-th service, "nil" if none.
ServiceFailure(k) ==
    IF svc.answers[k].open # "nil" THEN svc.answers[k].open ELSE svc.answers[k].query

\* The positions of the records emitted for service s, and of its log entries.
RecordsOf(s) == {r \in 1..Len(svc.records) : svc.records[r].tags.service_name = s}
LogsOf(s) == {l \in 1..Len(svc.log) : svc.log[l].service = s}

\* C21: when the loop over the matched services has ended, Gather returns nil;
\* a service whose open or status query failed has no record and one log
\* entry, at debug level for a permission error and at error level otherwise;
\* every other matched service has exactly one record and no log entry.
C21_ServiceCollectionContinues ==
    (svc.pc = "done" /\ svc.disconnects = 1 /\ svc.ret # "Could not list services") =>
        /\ svc.ret = "nil"
        /\ Len(svc.answers) = Len(svc.serviceNames)
        /\ \A k \in 1..Len(svc.serviceNames) :
              LET s == svc.serviceNames[k] IN
                IF ServiceFailure(k) # "nil"
                THEN /\ RecordsOf(s) = {}
                     /\ Cardinality(LogsOf(s)) = 1
                     /\ \A l \in LogsOf(s) :
                           svc.log[l].level =
                              IF ServiceFailure(k) = "ERROR_ACCESS_DENIED"
                              THEN "debug" ELSE "error"
                ELSE /\ Cardinality(RecordsOf(s)) = 1
                     /\ LogsOf(s) = {}

\* Of three matched services the first could not be opened for lack of
\* permission, the second could not be queried, the third was emitted.
C21_Witness ==
    /\ svc.pc = "done"
    /\ svc.ret = "nil"
    /\ svc.serviceNames = <<1, 2, 3>>
    /\ svc.answers[1].open = "ERROR_ACCESS_DENIED"
    /\ svc.answers[2].query = "ERROR_SERVICE_DOES_NOT_EXIST"
    /\ svc.log = <<[service |-> 1, level |-> "debug"], [service |-> 2, level |-> "error"]>>
    /\ Len(svc.records) = 1
    /\ svc.records[1].tags.service_name = 3

(***************************************************************************)
(* Properties of the order of renders, releases and pulls (Spec).          *)
(***************************************************************************)
\* C22: in a batch the handles are rendered one at a time in the order of the
\* pull; a handle is released only when every non-null handle of the batch has
\* been rendered; and the next pull of the cycle is issued only when every
\* handle of the batch has been released.
C22_RenderReleaseOrdering ==
    [][ /\ (pc = "render" /\ Len(renderLog') > Len(renderLog)) =>
              /\ Len(renderLog') = Len(renderLog) + 1
              /\ [i \in 1..Len(renderLog') |-> renderLog'[i].handle]
                   = NonNull(SubSeq(eventHandles, 1, idx))
              /\ \A i \in 1..Len(eventHandles) : closeCalls[i] = 0
        /\ (pc = "close" /\ closeCalls' # closeCalls) =>
              [i \in 1..Len(renderLog) |-> renderLog[i].handle] = NonNull(eventHandles)
        /\ (pc = "fetch" /\ pulls' = pulls + 1) =>
              \A i \in 1..Len(eventHandles) : closeCalls[i] = 1 ]_vars

\* A second pull is about to be issued after a batch of two handles was
\* rendered and released.
C22_Witness ==
    /\ pc = "fetch"
    /\ pulls = 1
    /\ Len(eventHandles) = 2
    /\ Len(renderLog) = 2
    /\ closeCalls = <<1, 1>>

(***************************************************************************)
(* Properties of the poll cycle (SpecLive).                                *)
(***************************************************************************)
\* A Gather call that got past the subscription has returned.
CycleReturned == pc = "idle" /\ ret \notin {"none", "SubscriptionError"}

\* _EvtNext succeeded without returning a handle.
EmptyPull(p) == p.err = "nil" /\ p.returned = 0

\* C23: a batch has at most 5 handles; a Gather call returns only on an error
\* of a pull or of a release, the end of the backlog being one; a pull that
\* succeeds with zero handles does not end the cycle; and, the pulls
\* eventually reporting the end of the backlog or an error, every Gather call
\* returns.
C23_PollCycleTermination ==
    /\ [](Len(eventHandles) <= eventsNumber)
    /\ [](CycleReturned =>
            (fetchRet.src \in {"pull", "close"} /\ fetchRet.err # "nil"))
    /\ [](EmptyPull(lastPull) => (pc \in {"emit", "fetch"} /\ ret = "running"))
    /\ ((pc # "idle") ~> (pc = "idle"))

\* A Gather call has returned nil at the end of the backlog after three pulls
\* and after emitting a record.
C23_Witness ==
    /\ CycleReturned
    /\ ret = "nil"
    /\ pulls = 3
    /\ EndOfBacklog(lastPull)
    /\ emitted # <<>>

\* The record ids emitted by the current Gather call, and the handles of the
\* events rendered for the last batch.
EmittedIds == [i \in 1..Len(emitted) |-> emitted[i].fields.record_id.value]
RenderedIds == [i \in 1..Len(events) |-> events[i].handle]

\* C24: whenever fetchEvents is not at work on a batch, the events rendered
\* for the last batch pulled are the last records emitted, in pull order, also
\* when a release of that batch failed; and no event is emitted twice or out
\* of pull order.
C24_NoLossNoDuplication ==
    pc \in {"fetch", "idle"} =>
        /\ Len(events) <= Len(emitted)
        /\ SubSeq(EmittedIds, Len(emitted) - Len(events) + 1, Len(emitted)) = RenderedIds
        /\ \A i, j \in 1..Len(emitted) : i < j => EmittedIds[i] < EmittedIds[j]

(***************************************************************************)
(* Properties of the service program (SpecPrg).                            *)
(***************************************************************************)
\* C25: Start returns whatever the goroutine is doing; Stop never closes the
\* nil channel; the channel Stop closed is the one stop still holds and the
\* one reloadLoop waits on, so that the run loop observes the stop request.
C25_StopSignalling ==
    /\ (prg.start = "logged" /\ Alive) => ENABLED Start
    /\ prg.stopPc # "panicked"
    /\ prg.stopPc \in {"closed", "returned"} =>
          /\ prg.loaded # 0
          /\ prg.loaded = prg.stop
          /\ prg.watched # 0 => prg.watched \in prg.closed

====
